---- MODULE Spec2Model ----
(***************************************************************************)
(* A model of watchurl: the Supervisor (main), the completion goroutine,   *)
(* one Watch Loop (watch) per URL argument, the change-detection pipeline  *)
(* (diffURLWithTimeout / diffURL) and the State Store files.               *)
(*                                                                         *)
(* The repository holds two variants of the program.  The current one      *)
(* (src/unnamed/part_001) is modelled with legacy = FALSE, the older       *)
(* src/watchurl.go with legacy = TRUE; the places where they differ are     *)
(* marked "legacy" below.                                                   *)
(*                                                                         *)
(* Time is discrete.  A step of a goroutine takes no time, except that a   *)
(* goroutine may stay blocked in select (waiting for the timer) or inside  *)
(* an HTTP fetch while time advances.                                      *)
(*                                                                         *)
(* statePath and the loop of reportDiffs are also run on their own, on     *)
(* arguments held in pin, with the result left in pout.                    *)
(***************************************************************************)
EXTENDS Integers, Sequences, FiniteSets

\* ---------------------------------------------------------------- bounds
\* The clock runs from 0 to MaxTime.
MaxTime == 1
\* At most MaxSignals SIGINT/SIGTERM are delivered to the process.
MaxSignals == 3
\* Ticks begun after cancel() are counted up to PostCancelCap.
PostCancelCap == 2
\* A span of a diff holds at most MaxLen bytes, a diff at most MaxSpans spans.
MaxLen == 3
MaxSpans == 2
\* A time.Duration is a signed integer of DurBits bits (64 in Go).
DurBits == 4

\* ------------------------------------------------------ program constants
\* ch := make(chan os.Signal, 2)
ChanCap == 2
\* if len(name) > 127 { name = name[:127] }
NameLimit == 127
\* hex.EncodeToString of the 20 bytes of a SHA-1 digest
DigestLen == 40

\* ---------------------------------------------------------------- inputs
Addrs == {"u1", "u2"}
\* The texts html2text can return for a page.
Texts == {"", "a", "b"}
\* The contents a Snapshot file can have when the program starts.
StartTexts == {"", "a"}
\* The signal the kernel delivers; main treats SIGTERM the same.
Signals == {"SIGINT"}
\* The ways getURLText fails on its own: http.NewRequestWithContext,
\* http.DefaultClient.Do, io.ReadAll, html2text.FromString.
FetchErrs == {"request", "transport", "body", "extract"}

None == -1

\* The largest time.Duration.
MaxDuration == 2^(DurBits - 1) - 1

\* a + b on time.Duration: signed integer addition, which wraps around.
AddDuration(a, b) == ((a + b + 2^(DurBits - 1)) % 2^DurBits) - 2^(DurBits - 1)

VARIABLES
    legacy,          \* TRUE: src/watchurl.go; FALSE: src/unnamed/part_001
    args,            \* flag.Args()
    every,           \* *every
    jitter,          \* *jitter
    requestTimeout,  \* *requestTimeout
    pages,           \* the texts the watched sites serve during this run
    now,             \* the clock
    cancelled,       \* cancel() was called: ctx.Done() is closed
    ch,              \* the signal channel, capacity ChanCap
    sigCount,        \* signals delivered to the process so far
    mpc,             \* main: "waitSig" (<-ch), "waitDone" (<-done), "exited"
    cpc,             \* completion goroutine: "wait", "send", "close", "end"
    wg,              \* the WaitGroup counter
    doneClosed,      \* close(done) was executed
    wpc,             \* per Watch Loop: "select", "fetch", "read", "write",
                     \* "ret" (the tick's result is in), "done"
    timerAt,         \* per Watch Loop: when its timer fires, or None
    tk,              \* per Watch Loop: what its current tick has done
    last,            \* per Watch Loop: how its last completed tick ended:
                     \* "none", "ok", "fetch" or "ctx" (getURLText failed,
                     \* on its own or with a context error), "failed"
    postCancel,      \* per Watch Loop: ticks begun after cancel(), counted
                     \* up to PostCancelCap
    files,           \* the State Store: one Snapshot file per URL
    pin,             \* the argument of a function that is run on its own
    pout             \* << >>, or << the value the function returned >>

vars == << legacy, args, every, jitter, requestTimeout, pages, now, cancelled, ch,
           sigCount, mpc, cpc, wg, doneClosed, wpc, timerAt, tk, last,
           postCancel, files, pin, pout >>

fnVars == << pin, pout >>
config == << legacy, args, every, jitter, requestTimeout, pages >>
mainVars == << mpc, cancelled >>
compVars == << cpc, doneClosed >>
loopVars == << wpc, timerAt, tk, last, postCancel, wg, files >>

Loops == 1..Len(args)

NoFile == [exists |-> FALSE, data |-> ""]
File(text) == [exists |-> TRUE, data |-> text]

\* The record of a tick that has not begun.  startAt is when the tick began,
\* armedAt when the timer that began it was due, delay what it re-armed the
\* timer with.
NoTick ==
    [ deadline |-> None,
      ctxAtStart |-> FALSE, fetched |-> "none", text |-> "",
      readRes |-> "none", old |-> "", wrote |-> FALSE,
      diff |-> "", edits |-> 0, err |-> "nil",
      warned |-> FALSE, notified |-> FALSE, delay |-> None,
      startAt |-> None, armedAt |-> None ]

\* The state after main has started its goroutines, for a command line and
\* a State Store drawn from the given sets.  Flag values are in clock units.
InitWith(argLists, everys, jitters, timeouts, pageSets, startTexts) ==
    /\ args \in argLists
    /\ every \in everys
    /\ jitter \in jitters
    /\ requestTimeout \in timeouts
    /\ pages \in pageSets
    /\ now = 0
    /\ cancelled = FALSE
    /\ ch = << >>
    /\ sigCount = 0
    /\ mpc = "waitSig"
    /\ cpc = "wait"
    /\ wg = Len(args)
    /\ doneClosed = FALSE
    /\ wpc = [i \in Loops |-> "select"]
    \* t := time.NewTimer(time.Nanosecond)
    /\ timerAt = [i \in Loops |-> 0]
    /\ tk = [i \in Loops |-> NoTick]
    /\ last = [i \in Loops |-> "none"]
    /\ postCancel = [i \in Loops |-> 0]
    /\ files \in [Addrs -> {NoFile} \cup {File(t) : t \in startTexts}]
    /\ \A a \in Addrs : (\A i \in Loops : args[i] # a) => files[a] = NoFile
    /\ pin = << >>
    /\ pout = << >>

\* The state in which one function of the program is about to be called
\* with an argument drawn from inputs; no goroutine of main is running.
InitFn(inputs) ==
    /\ args = << >>
    /\ every = 0
    /\ jitter = 0
    /\ requestTimeout = 0
    /\ pages = {}
    /\ now = 0
    /\ cancelled = FALSE
    /\ ch = << >>
    /\ sigCount = 0
    /\ mpc = "exited"
    /\ cpc = "end"
    /\ wg = 0
    /\ doneClosed = FALSE
    /\ wpc = << >>
    /\ timerAt = << >>
    /\ tk = << >>
    /\ last = << >>
    /\ postCancel = << >>
    /\ files = [a \in Addrs |-> NoFile]
    /\ pin \in inputs
    /\ pout = << >>

\* One URL, every kind of page and Snapshot.
InitOne == InitWith({ <<"u1">> }, {-1, 0, 1}, {0, 2}, {0, 1}, {Texts}, StartTexts)
\* Two Watch Loops, for two URLs and for the same URL given twice.
InitTwo ==
    InitWith({ <<"u1", "u2">>, <<"u1", "u1">> }, {0, 1}, {0}, {1}, {{"a"}}, {})

\* One URL in repeat mode, with a short and with the longest interval.
InitLong ==
    InitWith({ <<"u1">> }, {1, MaxDuration}, {0, 2}, {0}, {{"a", "b"}}, {"a"})

Init == InitOne /\ legacy = FALSE
InitLegacy == InitOne /\ legacy = TRUE
InitPair == InitTwo /\ legacy = FALSE
InitInterval == InitLong /\ legacy = FALSE

\* The process is alive until main returns.
Running == mpc # "exited"

\* ------------------------------------------------------------ Supervisor
\* The kernel delivers SIGINT or SIGTERM; signal.Notify's send does not
\* block: a signal that finds the channel full is dropped.
Signal ==
    /\ Running
    /\ sigCount < MaxSignals
    /\ sigCount' = sigCount + 1
    /\ \E s \in Signals :
          ch' = IF Len(ch) < ChanCap THEN Append(ch, s) ELSE ch
    /\ UNCHANGED << config, fnVars, now, mainVars, compVars, loopVars >>

\* <-ch; glog.Info("Shutting down..."); cancel()
MainRecv ==
    /\ mpc = "waitSig"
    /\ Len(ch) > 0
    /\ ch' = Tail(ch)
    /\ cancelled' = TRUE
    /\ mpc' = "waitDone"
    /\ UNCHANGED << config, fnVars, now, sigCount, compVars, loopVars >>

MainExit_NoWait ==
    /\ mpc = "waitDone"
    /\ mpc' = "exited"
    /\ UNCHANGED << config, fnVars, now, ch, sigCount, cancelled, compVars, loopVars >>

\* <-done; return
MainExit ==
    /\ mpc = "waitDone"
    /\ doneClosed
    /\ mpc' = "exited"
    /\ UNCHANGED << config, fnVars, now, ch, sigCount, cancelled, compVars, loopVars >>

\* wg.Wait()
CompWait ==
    /\ Running
    /\ cpc = "wait"
    /\ wg = 0
    /\ cpc' = "send"
    /\ UNCHANGED << config, fnVars, now, ch, sigCount, mainVars, doneClosed, loopVars >>

CompSend_Skip ==
    /\ Running
    /\ cpc = "send"
    /\ cpc' = "close"
    /\ UNCHANGED << config, fnVars, now, ch, sigCount, mainVars, doneClosed, loopVars >>

\* ch <- syscall.SIGTERM: blocks while the channel is full
CompSend ==
    /\ Running
    /\ cpc = "send"
    /\ Len(ch) < ChanCap
    /\ ch' = Append(ch, "SIGTERM")
    /\ cpc' = "close"
    /\ UNCHANGED << config, fnVars, now, sigCount, mainVars, doneClosed, loopVars >>

\* close(done)
CompClose ==
    /\ Running
    /\ cpc = "close"
    /\ doneClosed' = TRUE
    /\ cpc' = "end"
    /\ UNCHANGED << config, fnVars, now, ch, sigCount, mainVars, loopVars >>

\* ------------------------------------------------------------ State Store
\* A URL is a sequence of bytes: "a" and "_" match \w, "/" does not.
WordBytes == {"a", "_"}
UrlBytes == {"a", "/"}
Run(c, n) == [k \in 1..n |-> c]
\* URLs of up to three runs of equal bytes, short and long.
RunLens == {0, 1, 2, 43, 86}
URLs ==
    {Run(c[1], n[1]) \o Run(c[2], n[2]) \o Run(c[3], n[3]) :
        c \in [1..3 -> UrlBytes], n \in [1..3 -> RunLens]}
\* Long URLs that differ only after their first 86 bytes.
LongURLs == {Run("a", 86) \o Run(c, n) : c \in UrlBytes, n \in {1, 2}}
KeyInputs == [u : URLs, v : LongURLs]

HexDigits == << "0", "1", "2", "3", "4", "5", "6", "7",
                "8", "9", "a", "b", "c", "d", "e", "f" >>
ByteCode(c) == IF c = "a" THEN 97 ELSE IF c = "_" THEN 95 ELSE 47

\* hex.EncodeToString(sha1.Sum(addr)): DigestLen hexadecimal digits that
\* depend on every byte of addr.  SHA-1 itself is replaced by a hash of
\* one byte, so that different URLs with the same digest exist.
\* (The hash of bytes lo..hi is computed by halves.)
RECURSIVE HashOf(_, _, _)
HashOf(addr, lo, hi) ==
    IF lo > hi THEN 0
    ELSE IF lo = hi THEN (lo * ByteCode(addr[lo])) % 256
    ELSE LET mid == (lo + hi) \div 2
         IN  (HashOf(addr, lo, mid) + HashOf(addr, mid + 1, hi)) % 256

sha1Hex(addr) ==
    LET h == HashOf(addr, 1, Len(addr))
    IN  Run("0", DigestLen - 2)
        \o << HexDigits[(h \div 16) + 1], HexDigits[(h % 16) + 1] >>

\* specialRE.ReplaceAllLiteralString(addr, "_") with specialRE = [^\w]+:
\* every maximal run of bytes outside \w becomes one "_".
\* (The replacement for bytes lo..hi is computed by halves.)
RECURSIVE ReplaceIn(_, _, _)
ReplaceIn(addr, lo, hi) ==
    IF lo > hi THEN << >>
    ELSE IF lo = hi
         THEN IF addr[lo] \in WordBytes THEN << addr[lo] >>
              ELSE IF lo > 1 /\ addr[lo - 1] \notin WordBytes THEN << >>
              ELSE << "_" >>
    ELSE LET mid == (lo + hi) \div 2
         IN  ReplaceIn(addr, lo, mid) \o ReplaceIn(addr, mid + 1, hi)

Sanitize(addr) == ReplaceIn(addr, 1, Len(addr))

statePath_DigestLast(addr) ==
    LET name == Sanitize(addr) \o << "_" >> \o sha1Hex(addr)
    IN  IF ~legacy /\ Len(name) > NameLimit
        THEN SubSeq(name, 1, NameLimit) ELSE name

\* The file name statePath gives the Snapshot of addr (the directory it is
\* joined to does not depend on addr).  legacy: the name is not cut.
statePath(addr) ==
    LET name == sha1Hex(addr) \o << "_" >> \o Sanitize(addr)
    IN  IF ~legacy /\ Len(name) > NameLimit
        THEN SubSeq(name, 1, NameLimit) ELSE name

\* statePath is called for the two URLs in pin.
StatePath ==
    /\ pout = << >>
    /\ pout' = << [u |-> statePath(pin.u), v |-> statePath(pin.v)] >>
    /\ UNCHANGED << config, now, ch, sigCount, mainVars, compVars, loopVars,
                    pin >>

\* ------------------------------------------------------------ Diff Reporter
\* dmp.DiffCleanupSemantic(dmp.DiffMain(old, new, true)) for two different
\* texts that share no character (the texts of Texts): the whole old text is
\* deleted and the whole new text inserted.
DiffMain(old, new) ==
    (IF old # "" THEN << [Type |-> "Delete", Text |-> old] >> ELSE << >>)
    \o (IF new # "" THEN << [Type |-> "Insert", Text |-> new] >> ELSE << >>)

\* reportDiffs' return value: one edit per inserted or deleted span.
reportDiffs(old, new) ==
    LET diffs == DiffMain(old, new)
    IN  Cardinality({k \in DOMAIN diffs : diffs[k].Type \in {"Insert", "Delete"}})

\* A text is a sequence of bytes; NL is '\n'.
NL == "\n"
Bytes == {"a", NL}
SpanTexts == UNION {[1..n -> Bytes] : n \in 0..MaxLen}
\* The diffs DiffCleanupSemantic can hand to the loop of reportDiffs:
\* unchanged spans of every text, inserted and deleted spans of two texts.
Spans ==
    {[Type |-> "Equal", Text |-> t] : t \in SpanTexts}
    \cup {[Type |-> ty, Text |-> t] :
              ty \in {"Insert", "Delete"}, t \in {<<"a">>, <<NL, "a", NL>>}}
DiffLists == UNION {[1..n -> Spans] : n \in 0..MaxSpans}

\* What is written to w: bytes, colour codes, and the number of the
\* "(skipped %d bytes)" marker.
Byte(c) == [tok |-> c, n |-> 0]
Verbatim(t) == [k \in 1..Len(t) |-> Byte(t[k])]
Green == [tok |-> "ESC[32m", n |-> 0]
Red == [tok |-> "ESC[31m", n |-> 0]
Reset == [tok |-> "ESC[0m", n |-> 0]
Skipped(n) == << Byte(NL), [tok |-> "(skipped %d bytes)", n |-> n], Byte(NL) >>

\* strings.IndexByte and strings.LastIndexByte: indices from 0, -1 if absent.
IndexByte(t, c) ==
    IF \E k \in 1..Len(t) : t[k] = c
    THEN (CHOOSE k \in 1..Len(t) : t[k] = c /\ \A m \in 1..(k - 1) : t[m] # c) - 1
    ELSE -1

LastIndexByte_First(t, c) == IndexByte(t, c)

LastIndexByte(t, c) ==
    IF \E k \in 1..Len(t) : t[k] = c
    THEN (CHOOSE k \in 1..Len(t) :
              t[k] = c /\ \A m \in (k + 1)..Len(t) : t[m] # c) - 1
    ELSE -1

\* One iteration of reportDiffs' loop: what it writes for diff d.
WriteSpan(d) ==
    CASE d.Type = "Insert" -> << Green >> \o Verbatim(d.Text) \o << Reset >>
      [] d.Type = "Delete" -> << Red >> \o Verbatim(d.Text) \o << Reset >>
      [] d.Type = "Equal" ->
            LET firstNL == IndexByte(d.Text, NL)
                lastNL == LastIndexByte(d.Text, NL)
            IN  IF lastNL = firstNL
                THEN Verbatim(d.Text)
                ELSE Verbatim(SubSeq(d.Text, 1, firstNL))
                     \o Skipped(lastNL - firstNL)
                     \o Verbatim(SubSeq(d.Text, lastNL + 1, Len(d.Text)))

\* reportDiffs' loop over diffs, from the writer contents out and the
\* count edits.
RECURSIVE reportDiffsLoop(_, _, _)
reportDiffsLoop(diffs, out, edits) ==
    IF diffs = << >>
    THEN [out |-> out, edits |-> edits]
    ELSE LET d == Head(diffs)
         IN  reportDiffsLoop(Tail(diffs), out \o WriteSpan(d),
                             IF d.Type \in {"Insert", "Delete"}
                             THEN edits + 1 ELSE edits)

\* reportDiffs is called for the diffs in pin.
ReportDiffs ==
    /\ pout = << >>
    /\ pout' = << reportDiffsLoop(pin, << >>, 0) >>
    /\ UNCHANGED << config, now, ch, sigCount, mainVars, compVars, loopVars,
                    pin >>

InitialFetch == "(initial fetch)"
\* Stands for sb.String() after reportDiffs: never empty when the texts
\* differ, since every inserted or deleted span writes its colour codes.
RenderedDiff == "(rendered diff)"

\* ------------------------------------------------------------ Watch Loop
\* if every <= 0 { ...; return }     (legacy: if every == 0)
OneShot == IF legacy THEN every = 0 ELSE every <= 0

\* t.Reset(d): the timer fires d from now, at once when d is not positive.
When(d) == IF d > 0 THEN now + d ELSE now

JitterChoices_Wide == IF jitter > 0 THEN 0..(jitter + 1) ELSE {0}

\* j = rand.Int63n(int64(jitter)) when jitter > 0, else 0
JitterChoices == IF jitter > 0 THEN 0..(jitter - 1) ELSE {0}

TimerReady_Always(i) == timerAt[i] # None

\* A value is waiting in t.C.
TimerReady(i) == timerAt[i] # None /\ now >= timerAt[i]

CtxDone_Never == FALSE

\* <-ctx.Done() of the shared context is ready.
CtxDone == cancelled

\* ctx.Err() != nil for the context of tick record r: the shared context
\* was cancelled, or the request timeout layered onto it has expired.
CtxErr(r) == cancelled \/ (r.deadline # None /\ now >= r.deadline)

Unchanged_Never(old, text) == FALSE

\* if old == text { return "", 0, nil }
Unchanged(old, text) == old = text

\* diffURLWithTimeout returns what diffURL returned in r (or the context
\* error), and watch logs the warning or notifies.
Finish(i, r) ==
    LET late == ~legacy /\ r.err = "nil" /\ CtxErr(r)
        err == IF late THEN "ctxlate" ELSE r.err
    IN  /\ tk' = [tk EXCEPT ![i] =
                    [r EXCEPT !.deadline = None, !.err = err,
                              !.warned = (err # "nil"),
                              !.notified = (err = "nil" /\ r.diff # "")]]
        /\ wpc' = [wpc EXCEPT ![i] = "ret"]

\* How a tick with error value err ended, as kept in last.
Outcome(err) ==
    CASE err = "nil" -> "ok"
      [] err = "ctx" -> "ctx"
      [] err \in FetchErrs -> "fetch"
      [] OTHER -> "failed"

WatchNext_ReturnOnError(i) ==
    /\ Running
    /\ wpc[i] = "ret"
    /\ LET exits == tk[i].err # "nil" \/ OneShot
       IN  /\ wpc' = [wpc EXCEPT ![i] = IF exits THEN "done" ELSE "select"]
           /\ wg' = IF exits THEN wg - 1 ELSE wg
    /\ last' = [last EXCEPT ![i] = Outcome(tk[i].err)]
    /\ tk' = [tk EXCEPT ![i] = NoTick]
    /\ UNCHANGED << config, fnVars, now, ch, sigCount, mainVars, compVars, timerAt,
                    postCancel, files >>

\* The rest of watch's timer case: continue after an error; return after a
\* check without error in one-shot mode; else back to the select.
WatchNext(i) ==
    /\ Running
    /\ wpc[i] = "ret"
    /\ LET exits == tk[i].err = "nil" /\ OneShot
       IN  /\ wpc' = [wpc EXCEPT ![i] = IF exits THEN "done" ELSE "select"]
           /\ wg' = IF exits THEN wg - 1 ELSE wg
    /\ last' = [last EXCEPT ![i] = Outcome(tk[i].err)]
    /\ tk' = [tk EXCEPT ![i] = NoTick]
    /\ UNCHANGED << config, fnVars, now, ch, sigCount, mainVars, compVars, timerAt,
                    postCancel, files >>

\* case <-ctx.Done(): return     (then the deferred wg.Done())
WatchCancel(i) ==
    /\ Running
    /\ wpc[i] = "select"
    /\ CtxDone
    /\ wpc' = [wpc EXCEPT ![i] = "done"]
    /\ wg' = wg - 1
    /\ UNCHANGED << config, fnVars, now, ch, sigCount, mainVars, compVars, timerAt,
                    tk, last, postCancel, files >>

TickBegin_Overlapping(i) ==
    /\ Running
    /\ wpc[i] \in {"select", "read", "write"}
    /\ TimerReady(i)
    /\ \E j \in JitterChoices :
          /\ timerAt' = [timerAt EXCEPT ![i] =
                            IF every > 0 THEN When(AddDuration(every, j))
                            ELSE None]
          /\ tk' = [tk EXCEPT ![i] =
                      [NoTick EXCEPT
                          !.delay = IF every > 0 THEN AddDuration(every, j)
                                    ELSE None,
                          !.deadline = IF ~legacy /\ requestTimeout > 0
                                       THEN now + requestTimeout ELSE None,
                          !.ctxAtStart = cancelled,
                          !.startAt = now, !.armedAt = timerAt[i]]]
    /\ postCancel' = [postCancel EXCEPT ![i] =
                          IF cancelled /\ @ < PostCancelCap THEN @ + 1 ELSE @]
    /\ wpc' = [wpc EXCEPT ![i] = "fetch"]
    /\ UNCHANGED << config, fnVars, now, ch, sigCount, mainVars, compVars, last, wg,
                    files >>

\* case <-t.C: re-arm the timer (repeat mode), then enter
\* diffURLWithTimeout and getURLText.
TickBegin(i) ==
    /\ Running
    /\ wpc[i] = "select"
    /\ TimerReady(i)
    /\ \E j \in JitterChoices :
          /\ timerAt' = [timerAt EXCEPT ![i] =
                            IF every > 0 THEN When(AddDuration(every, j))
                            ELSE None]
          /\ tk' = [tk EXCEPT ![i] =
                      [NoTick EXCEPT
                          !.delay = IF every > 0 THEN AddDuration(every, j)
                                    ELSE None,
                          !.deadline = IF ~legacy /\ requestTimeout > 0
                                       THEN now + requestTimeout ELSE None,
                          !.ctxAtStart = cancelled,
                          !.startAt = now, !.armedAt = timerAt[i]]]
    /\ postCancel' = [postCancel EXCEPT ![i] =
                          IF cancelled /\ @ < PostCancelCap THEN @ + 1 ELSE @]
    /\ wpc' = [wpc EXCEPT ![i] = "fetch"]
    /\ UNCHANGED << config, fnVars, now, ch, sigCount, mainVars, compVars, last, wg,
                    files >>

CanSucceed_Always(r) == TRUE

\* http.DefaultClient.Do does not send a request whose context is already
\* done: only a request begun before the cancellation can bring a page.
CanSucceed(r) == ~r.ctxAtStart

\* getURLText returns.  A request begun with the context already cancelled
\* fails at once; a request whose context ends while it is in flight is
\* aborted, unless the page had just arrived.
FetchEnd(i) ==
    /\ Running
    /\ wpc[i] = "fetch"
    /\ LET r == tk[i] IN
          \/ /\ CanSucceed(r)
             /\ \E t \in pages :
                   tk' = [tk EXCEPT ![i] = [r EXCEPT !.fetched = "ok", !.text = t]]
             /\ wpc' = [wpc EXCEPT ![i] = "read"]
          \/ \E e \in FetchErrs \cup {"ctx"} :
                /\ (e = "ctx") => CtxErr(r)
                /\ r.ctxAtStart => e \in {"request", "ctx"}
                \* legacy diffURL: if err != nil { return "", 0, nil }
                /\ Finish(i, [r EXCEPT !.fetched = e,
                                       !.err = IF legacy THEN "nil" ELSE e])
    /\ UNCHANGED << config, fnVars, now, ch, sigCount, mainVars, compVars, timerAt,
                    last, postCancel, wg, files >>

\* old, err := readState(addr), and the comparison with the fetched text.
ReadState(i) ==
    /\ Running
    /\ wpc[i] = "read"
    /\ LET r == tk[i]
           f == files[args[i]]
           old == IF f.exists THEN f.data ELSE ""
           r1 == [r EXCEPT !.readRes = IF f.exists THEN "found" ELSE "notfound",
                           !.old = old]
       IN \/ \* statePath or os.ReadFile fails, and not with "not exist"
             \* (legacy diffURL: return "", 0, nil)
             Finish(i, [r EXCEPT !.readRes = "err",
                                 !.err = IF legacy THEN "nil" ELSE "stateio"])
          \/ /\ Unchanged(old, r.text)
             /\ Finish(i, r1)
          \/ /\ ~Unchanged(old, r.text)
             /\ tk' = [tk EXCEPT ![i] = r1]
             /\ wpc' = [wpc EXCEPT ![i] = "write"]
    /\ UNCHANGED << config, fnVars, now, ch, sigCount, mainVars, compVars, timerAt,
                    last, postCancel, wg, files >>

\* writeState(addr, text), then the report for the change.
WriteState(i) ==
    /\ Running
    /\ wpc[i] = "write"
    /\ LET r == tk[i]
           a == args[i]
       IN \/ \* statePath, os.MkdirAll or os.WriteFile fails; os.WriteFile
             \* truncates the file when it opens it, so a failed write may
             \* leave the file as it was or empty
             /\ files' \in {files, [files EXCEPT ![a] = File("")]}
             /\ Finish(i, [r EXCEPT !.err = "stateio"])
          \/ /\ files' = [files EXCEPT ![a] = File(r.text)]
             /\ Finish(i, [r EXCEPT
                              !.wrote = TRUE,
                              !.diff = IF r.old = "" THEN InitialFetch
                                       ELSE RenderedDiff,
                              !.edits = IF r.old = "" THEN 0
                                        ELSE reportDiffs(r.old, r.text)])
    /\ UNCHANGED << config, fnVars, now, ch, sigCount, mainVars, compVars, timerAt,
                    last, postCancel, wg >>

\* ------------------------------------------------------------------ time
\* A Watch Loop with a ready select case takes it, a fetch whose context
\* has ended returns, and a tick whose result is in is wound up, before the
\* clock moves on.
Urgent(i) ==
    \/ wpc[i] = "select" /\ (CtxDone \/ TimerReady(i))
    \/ wpc[i] = "fetch" /\ CtxErr(tk[i])
    \/ wpc[i] = "ret"

Advance ==
    /\ Running
    /\ now < MaxTime
    /\ \A i \in Loops : ~Urgent(i)
    /\ now' = now + 1
    /\ UNCHANGED << config, fnVars, ch, sigCount, mainVars, compVars, loopVars >>

\* --------------------------------------------------------- specifications
WatchStep(i) ==
    \/ WatchCancel(i)
    \/ TickBegin(i)
    \/ FetchEnd(i)
    \/ ReadState(i)
    \/ WriteState(i)
    \/ WatchNext(i)

Next ==
    \/ Signal
    \/ MainRecv
    \/ MainExit
    \/ CompWait
    \/ CompSend
    \/ CompClose
    \/ Advance
    \/ \E i \in Loops : WatchCancel(i)
    \/ \E i \in Loops : TickBegin(i)
    \/ \E i \in Loops : FetchEnd(i)
    \/ \E i \in Loops : ReadState(i)
    \/ \E i \in Loops : WriteState(i)
    \/ \E i \in Loops : WatchNext(i)

\* The current variant of the program.
Spec == Init /\ [][Next]_vars

\* The older variant, src/watchurl.go.
SpecLegacy == InitLegacy /\ [][Next]_vars

\* What the Go scheduler guarantees: a goroutine that can run does run; a
\* select with several ready cases picks among them at random, so the
\* ctx.Done() case is not passed over forever; a fetch whose context has
\* ended returns.  Nothing is assumed of the signals, of the clock, or of a
\* fetch whose context is still live.
Fairness(loops) ==
    /\ WF_vars(MainRecv)
    /\ WF_vars(MainExit)
    /\ WF_vars(CompWait)
    /\ WF_vars(CompSend)
    /\ WF_vars(CompClose)
    /\ \A i \in loops :
          /\ SF_vars(WatchCancel(i))
          /\ WF_vars(TickBegin(i))
          /\ WF_vars(CtxErr(tk[i]) /\ FetchEnd(i))
          /\ WF_vars(ReadState(i))
          /\ WF_vars(WriteState(i))
          /\ WF_vars(WatchNext(i))

\* The current variant with intervals up to the largest Duration.
SpecInterval == InitInterval /\ [][Next]_vars

\* reportDiffs on its own, for every diff of DiffLists.
InitRender == InitFn(DiffLists) /\ legacy = FALSE
NextRender == ReportDiffs
SpecRender == InitRender /\ [][NextRender]_vars

\* statePath on its own, in the current and in the older variant.
InitKey == InitFn(KeyInputs) /\ legacy = FALSE
InitKeyLegacy == InitFn(KeyInputs) /\ legacy = TRUE
NextKey == StatePath
SpecKey == InitKey /\ [][NextKey]_vars
SpecKeyLegacy == InitKeyLegacy /\ [][NextKey]_vars

\* Two Watch Loops of the current variant.
SpecPair == InitPair /\ [][Next]_vars
LivePair == SpecPair /\ Fairness({1, 2})

\* ------------------------------------------------------------------ claims
AllDone == \A i \in Loops : wpc[i] = "done"

\* The tick of Watch Loop i has ended: its result is in.
Ended(i) == wpc[i] = "ret"

\* The tick of Watch Loop i has ended and its getURLText failed.
FetchFailed(i) == Ended(i) /\ tk[i].fetched \notin {"none", "ok"}

\* What main and the completion goroutine can do on their own.
SupervisorStep == MainRecv \/ MainExit \/ CompWait \/ CompSend \/ CompClose

\* C1: in one-shot mode a Watch Loop whose tick ends in a fetch error logs
\* the failure, and after such a tick, with no cancellation signaled, it is
\* Terminated or can go on by itself.
C1_OneShotFailureTerminates ==
    \A i \in Loops :
        ~(every > 0) =>
            /\ FetchFailed(i) => tk[i].warned
            /\ (last[i] \in {"fetch", "ctx"} /\ ~cancelled) =>
                  (wpc[i] = "done" \/ ENABLED WatchStep(i))

\* C2: once every Watch Loop is Terminated the Supervisor exits, whatever
\* signals were delivered: main has returned, or main or the completion
\* goroutine can still take a step (the send on ch is not blocked for good).
C2_SupervisorExitsAfterLoops ==
    AllDone => (mpc = "exited" \/ ENABLED SupervisorStep)

\* C3: once main is past <-ch the cancellation has been broadcast, and
\* whenever main has returned every watch goroutine has returned.
C3_NoExitBeforeLoops ==
    /\ (mpc # "waitSig") => cancelled
    /\ (mpc = "exited") => (AllDone /\ wg = 0)

\* C3 witness: main has returned after an interrupt that cancelled a fetch
\* in flight.
C3_Witness ==
    /\ mpc = "exited"
    /\ sigCount > 0
    /\ \E i \in Loops : last[i] = "ctx" /\ postCancel[i] = 0

\* C4: when all Watch Loops have terminated and no signal was delivered,
\* main returns (unless a signal is delivered after all): the completion
\* goroutine's send has unblocked main's <-ch.
C4_NaturalCompletionExits ==
    /\ []((cpc \in {"close", "end"} /\ sigCount = 0) =>
              (Len(ch) > 0 \/ mpc # "waitSig"))
    /\ ((AllDone /\ sigCount = 0) ~> (mpc = "exited" \/ sigCount > 0))

\* C4 witness: main has returned and no signal was ever delivered.
C4_Witness == mpc = "exited" /\ sigCount = 0 /\ AllDone

C6_FirstObservation ==
    \A i \in Loops :
        (Ended(i) /\ tk[i].fetched = "ok" /\ tk[i].readRes = "notfound"
            /\ tk[i].err = "nil") =>
            /\ tk[i].notified
            /\ tk[i].diff = InitialFetch
            /\ tk[i].edits = 0
            /\ tk[i].wrote
            /\ files[args[i]] = File(tk[i].text)

\* C7: a tick whose fetched text equals the prior Snapshot invoked no Diff
\* Reporter (no diff, no edits), notified nothing and left the file alone.
C7_NoChangeNoWrite ==
    \A i \in Loops :
        (Ended(i) /\ tk[i].readRes = "found" /\ tk[i].old = tk[i].text) =>
            /\ ~tk[i].wrote
            /\ tk[i].diff = "" /\ tk[i].edits = 0
            /\ ~tk[i].notified
            /\ files[args[i]] = File(tk[i].old)

\* C7 witness: a tick fetched the text the Snapshot already held.
C7_Witness ==
    \E i \in Loops :
        /\ Ended(i) /\ tk[i].fetched = "ok" /\ tk[i].err = "nil"
        /\ tk[i].readRes = "found" /\ tk[i].old = "a" /\ tk[i].text = "a"

\* C8: a tick that replaced the Snapshot emitted the report for the change:
\* it is not treated as a failure.
C8_PersistedThenReported ==
    \A i \in Loops :
        (Ended(i) /\ tk[i].wrote) =>
            (tk[i].notified /\ tk[i].err = "nil" /\ ~tk[i].warned)

\* C9: a tick whose fetch failed logged a warning, read and wrote no
\* Snapshot, emitted no report, and in repeat mode left the timer armed for
\* the next tick.
C9_FetchFailureSkipsCycle ==
    \A i \in Loops :
        FetchFailed(i) =>
            /\ tk[i].warned
            /\ tk[i].readRes = "none" /\ ~tk[i].wrote
            /\ ~tk[i].notified /\ tk[i].diff = ""
            /\ (every > 0) => (timerAt[i] # None)

\* C10: in repeat mode a Watch Loop is Terminated only after cancel(), and
\* a Watch Loop that waits has its timer armed, whatever errors its own and
\* the other loops' ticks ended in.
C10_RepeatRunsUntilCancelled ==
    (every > 0) =>
        \A i \in Loops :
            /\ (wpc[i] = "done") => cancelled
            /\ (wpc[i] = "select") => (timerAt[i] # None)

\* C10 witness: in repeat mode, with nothing cancelled, one Watch Loop's
\* tick ended in a State Store error while the other, whose last fetch
\* failed, is waiting for its next tick.
C10_Witness ==
    /\ every > 0
    /\ ~cancelled
    /\ \E i, j \in Loops :
          /\ i # j
          /\ Ended(i) /\ tk[i].err = "stateio"
          /\ wpc[j] = "select" /\ last[j] = "fetch"

\* Watch Loops i and j keep their Snapshot in the same file: statePath names
\* the file after the URL alone.
SameFile(i, j) == args[i] = args[j]

\* Watch Loop i is inside diffURL's readState ... writeState section.
InStateStore(i) == wpc[i] \in {"read", "write"}

\* C11: no two Watch Loops are inside the read-compare-write section of the
\* same Snapshot file at the same time, also when a URL is given twice.
C11_OneOwnerPerFile ==
    \A i, j \in Loops :
        (i # j /\ SameFile(i, j)) => ~(InStateStore(i) /\ InStateStore(j))

\* C12: the ticks of one Watch Loop do not overlap: a tick begins only from
\* the select, when the tick before it has been wound up (its Snapshot is
\* written, its report emitted, its record cleared), however early the
\* timer for it fired.
C12_TicksDoNotOverlap ==
    [][\A i \in Loops :
          (wpc'[i] = "fetch" /\ tk'[i] # tk[i]) =>
              (wpc[i] = "select" /\ tk[i] = NoTick)]_vars

\* C12 witness: the timer for the next tick has fired while the current
\* tick, its text fetched, has yet to write its Snapshot and report.
C12_Witness ==
    \E i \in Loops :
        /\ every > 0
        /\ wpc[i] = "write" /\ tk[i].fetched = "ok"
        /\ TimerReady(i)

\* Watch Loop i is inside a tick.
InTick(i) == wpc[i] \in {"fetch", "read", "write", "ret"}

LineBreaks(t) == {k \in 1..Len(t) : t[k] = NL}
FirstBreak(t) == CHOOSE k \in LineBreaks(t) : \A m \in LineBreaks(t) : k <= m
LastBreak(t) == CHOOSE k \in LineBreaks(t) : \A m \in LineBreaks(t) : k >= m

\* What C14 says is emitted for span d.
Emitted(d) ==
    CASE d.Type = "Insert" -> << Green >> \o Verbatim(d.Text) \o << Reset >>
      [] d.Type = "Delete" -> << Red >> \o Verbatim(d.Text) \o << Reset >>
      [] d.Type = "Equal" /\ Cardinality(LineBreaks(d.Text)) <= 1 ->
            Verbatim(d.Text)
      [] OTHER ->
            Verbatim(SubSeq(d.Text, 1, FirstBreak(d.Text) - 1))
            \o Skipped(LastBreak(d.Text) - FirstBreak(d.Text))
            \o Verbatim(SubSeq(d.Text, LastBreak(d.Text), Len(d.Text)))

RECURSIVE EmittedAll(_)
EmittedAll(diffs) ==
    IF diffs = << >> THEN << >>
    ELSE Emitted(Head(diffs)) \o EmittedAll(Tail(diffs))

\* C14: reportDiffs writes each unchanged span verbatim when it has at most
\* one line break, else its text before the first line break, the marker
\* with (index of last line break - index of first), and its text from the
\* last line break on; it returns the number of inserted and deleted spans.
C14_ElisionAndEditCount ==
    (pout # << >>) =>
        /\ pout[1].out = EmittedAll(pin)
        /\ pout[1].edits =
              Cardinality({k \in DOMAIN pin : pin[k].Type \in {"Insert", "Delete"}})

\* C14 witness: reportDiffs returned for a diff of an unchanged span with
\* two line breaks and an inserted span.
C14_Witness ==
    /\ pout # << >>
    /\ \E k \in DOMAIN pin :
          pin[k].Type = "Equal" /\ pin[k].Text = << NL, "a", NL >>
    /\ \E k \in DOMAIN pin : pin[k].Type = "Insert"
    /\ pout[1].edits = 1

\* C15: the file name statePath returns for a URL has at most NameLimit
\* bytes, and two calls for the same URL return the same name.
C15_KeyBoundedAndStable ==
    (pout # << >>) =>
        /\ Len(pout[1].u) <= NameLimit
        /\ Len(pout[1].v) <= NameLimit
        /\ (pin.u = pin.v) => (pout[1].u = pout[1].v)

\* C20: the file name begins with the complete digest of the URL, cut or
\* not, so two URLs with different digests get different file names.
C20_DigestPrefixKept ==
    (pout # << >>) =>
        /\ \A x \in {"u", "v"} :
              /\ Len(pout[1][x]) > DigestLen
              /\ SubSeq(pout[1][x], 1, DigestLen) = sha1Hex(pin[x])
        /\ (sha1Hex(pin.u) # sha1Hex(pin.v)) => (pout[1].u # pout[1].v)

\* C20 witness: two URLs with different digests, whose names were both cut
\* to NameLimit bytes and are the same after the digest.
C20_Witness ==
    /\ pout # << >>
    /\ sha1Hex(pin.u) # sha1Hex(pin.v)
    /\ Len(Sanitize(pin.u)) > NameLimit - DigestLen - 1
    /\ Len(Sanitize(pin.v)) > NameLimit - DigestLen - 1
    /\ Len(pout[1].u) = NameLimit
    /\ SubSeq(pout[1].u, DigestLen + 1, NameLimit)
          = SubSeq(pout[1].v, DigestLen + 1, NameLimit)

\* Watch Loop i's tick has ended, and it began after cancel().
EndedPostCancel(i) == Ended(i) /\ tk[i].ctxAtStart

\* The tick of Watch Loop i read and wrote no Snapshot and reported nothing.
NoStoreNoReport(i) ==
    /\ tk[i].readRes = "none" /\ ~tk[i].wrote
    /\ tk[i].diff = "" /\ ~tk[i].notified

C17_ReadErrorFailsTick ==
    \A i \in Loops :
        (Ended(i) /\ tk[i].readRes = "err") =>
            /\ tk[i].err # "nil" /\ tk[i].warned
            /\ ~tk[i].wrote
            /\ tk[i].diff = "" /\ ~tk[i].notified

\* C18: a tick that replaced the Snapshot produced "(initial fetch)" only
\* if it found no prior Snapshot; if it found one, even an empty one, it
\* produced the Diff Reporter's report and edit count for (old, new).
C18_InitialFetchOnlyWithoutSnapshot ==
    \A i \in Loops :
        (Ended(i) /\ tk[i].wrote) =>
            /\ (tk[i].diff = InitialFetch) => (tk[i].readRes = "notfound")
            /\ (tk[i].readRes = "found") =>
                  /\ tk[i].diff = RenderedDiff
                  /\ tk[i].edits = reportDiffs(tk[i].old, tk[i].text)

\* C19 as stated: the next tick begins no sooner than the interval after
\* the current tick's cycle has completed: when the cycle completes, the
\* timer is not due before another interval has passed.
C19_DelayFromCycleEnd ==
    \A i \in Loops :
        (Ended(i) /\ every > 0) => (timerAt[i] >= now + every)

\* C19 amended: the delay is counted from the beginning of the tick: the
\* timer is due the delay, which is at least the interval, after the tick
\* began, and no tick begins before the timer is due (for intervals and
\* jitters whose sum is a Duration).
C19_DelayFromTickStart ==
    \A i \in Loops :
        (InTick(i) /\ every > 0 /\ every + jitter <= MaxDuration) =>
            /\ tk[i].delay >= every
            /\ timerAt[i] = tk[i].startAt + tk[i].delay
            /\ tk[i].startAt >= tk[i].armedAt

\* C19 witness: a tick's cycle has completed without error when the timer
\* for the next tick is already due.
C19_Witness ==
    \E i \in Loops :
        /\ every > 0 /\ ~cancelled
        /\ Ended(i) /\ tk[i].err = "nil" /\ tk[i].wrote
        /\ TimerReady(i)
        /\ now > tk[i].startAt
====
